---------------------------- MODULE Spec2Model ----------------------------
(***************************************************************************)
(* A model of saga.py: the discrete-Gaussian reference table, the          *)
(* univariate validator with its chi-square bucket merging, and the        *)
(* multivariate validator with the Doornik-Hansen and covariance-diagonal  *)
(* tests.                                                                  *)
(*                                                                         *)
(* Numbers.  The declared standard deviation is taken from the family      *)
(*     sigma = sign / sqrt(2 * k * ln 2),   k a positive integer,          *)
(* and the centre mu from the half-integers (mu2 = 2 * mu).  For these     *)
(*     gaussian(x, mu, sigma) = exp(-(x-mu)^2 / (2 sigma^2))               *)
(*                            = 2^(-k * (2x - mu2)^2 / 4),                 *)
(* a power of two, so every weight, sum and product of the program is a    *)
(* dyadic number.  A dyadic number is held exactly, as the set of integers *)
(* e of its binary expansion: the set E stands for the sum of 2^(-e) over  *)
(* e in E.  A quotient of two dyadic numbers (a normalised probability) is *)
(* held as the pair of its numerator and denominator.                      *)
(***************************************************************************)
EXTENDS Integers, Sequences, FiniteSets

\* ------------------------------------------------------------ constants

\* Tailcut rate
tau == 14
\* Minimal size of a bucket for the chi-squared test
chi2_bucket == 10

\* ------------------------------------------------------- dyadic numbers

Min(S) == CHOOSE x \in S : \A y \in S : x =< y
Max(S) == CHOOSE x \in S : \A y \in S : x >= y

DZero == {}

\* The carry into the power 2^(-e) of E + F: some lower power (a larger
\* exponent g) is in both, and every power between is in one of them.
Carry(E, F, e) ==
    \E g \in E \cap F : g > e /\ \A w \in (e + 1) .. (g - 1) : w \in E \cup F

\* E + F, bit by bit.
DAdd(E, F) ==
    IF E = {} THEN F
    ELSE IF F = {} THEN E
    ELSE {e \in (Min(E \cup F) - 1) .. Max(E \cup F) :
            ((e \in E) # (e \in F)) # Carry(E, F, e)}

RECURSIVE DMulNat(_, _)
\* E * n for a natural number n, by binary shift-and-add.
DMulNat(E, n) ==
    IF n = 0 \/ E = {} THEN DZero
    ELSE IF n % 2 = 1 THEN DAdd(DMulNat({e - 1 : e \in E}, n \div 2), E)
         ELSE DMulNat({e - 1 : e \in E}, n \div 2)

DLess(E, F) ==
    LET D == (E \ F) \cup (F \ E)
    IN  D # {} /\ Min(D) \in F

RECURSIVE DSum(_)
DSum(seq) == IF seq = <<>> THEN DZero ELSE DAdd(DSum(Tail(seq)), Head(seq))

\* The leading Precision bits of E below the power 2^(-base), as an integer:
\* E lies in [Lead, Lead + 1) * 2^(-(base + Precision - 1)) when E < 2^(1 - base).
Precision == 20
RECURSIVE Lead(_, _, _)
Lead(E, base, i) ==
    IF i = Precision THEN 0
    ELSE (IF base + i \in E THEN 2 ^ (Precision - 1 - i) ELSE 0) + Lead(E, base, i + 1)

\* N * n < D * d for dyadic numbers 0 =< N =< D, D > 0 and naturals n and d
\* below 1000: by the leading bits when they decide, else exactly.
DLessProduct(N, n, D, d) ==
    LET lN == Lead(N, Min(D), 0)
        lD == Lead(D, Min(D), 0)
    IN  IF n * (lN + 1) =< d * lD THEN TRUE
        ELSE IF n * lN >= d * (lD + 1) THEN FALSE
        ELSE DLess(DMulNat(N, n), DMulNat(D, d))

\* round(N / D * n) of Python: the nearest integer, a tie to the even one.
\* N / D is a probability, so the result lies in 0 .. n; the leading bits
\* of N and D give it up to one unit, the exact comparisons decide.
RoundHalfEven(N, D, n) ==
    LET twoNn == DMulNat(N, 2 * n)
        near == (2 * n * Lead(N, Min(D), 0) + Lead(D, Min(D), 0))
                  \div (2 * Lead(D, Min(D), 0))
    IN  CHOOSE m \in {k \in (near - 1) .. (near + 1) : k >= 0 /\ k =< n} :
          /\ \/ m = 0
             \/ DLess(DMulNat(D, 2 * m - 1), twoNn)
             \/ DMulNat(D, 2 * m - 1) = twoNn /\ m % 2 = 0
          /\ \/ DLess(twoNn, DMulNat(D, 2 * m + 1))
             \/ DMulNat(D, 2 * m + 1) = twoNn /\ m % 2 = 0

\* --------------------------------------------------------------- floats

\* math.exp returns 0.0 below the smallest subnormal double, 2^(-1074).
FloatMinExp == 1074

\* A declared sigma: sign / sqrt(2 k ln 2).
Sigma(sign, k) == [sign |-> sign, k |-> k]

\* math.ceil(tau * sigma).  m >= tau * |sigma| iff 2 k ln2 m^2 >= tau^2,
\* with ln 2 = 0.693 (no integer k m^2 lies between the two thresholds).
ReachesTau(m, k) == 2 * 693 * k * m * m >= 1000 * tau * tau

\* A faulty variant of zmax_of: the bound is taken from |sigma|.
zmax_of_abs(sigma) ==
    IF sigma.sign = 0 THEN 0
    ELSE Min({m \in 0 .. tau : ReachesTau(m, sigma.k)})

zmax_of(sigma) ==
    IF sigma.sign = 0 THEN 0
    ELSE IF sigma.sign > 0
         THEN Min({m \in 0 .. tau : ReachesTau(m, sigma.k)})
         ELSE - Max({m \in 0 .. tau : m = 0 \/ ~ReachesTau(m, sigma.k)})

\* numpy.floor and math.ceil of mu = mu2 / 2.
floor_mu(mu2) == mu2 \div 2
ceil_mu(mu2) == -((-mu2) \div 2)
\* range(a, b) as the sequence of its values.
range(a, b) == [i \in 1 .. (IF b > a THEN b - a ELSE 0) |-> a + i - 1]

\* -------------------------------------------------------------- gaussian

NoError == "none"
ZeroDivisionError == "ZeroDivisionError"
IndexError == "IndexError"
ValueError == "ValueError"
LinAlgError == "LinAlgError"

\* The exponent of the weight: (x - mu)^2 / (2 sigma^2) = e * ln 2.
GaussExponent(x, mu2, sigma) == (sigma.k * (2 * x - mu2) * (2 * x - mu2)) \div 4

\* gaussian(x, mu, sigma) divides by 2 * sigma ** 2: an error when it is 0.
gaussian_raises(x, mu2, sigma) == sigma.sign = 0

\* gaussian(x, mu, sigma): the weight exp(-(x - mu)^2 / (2 sigma^2)).
gaussian(x, mu2, sigma) ==
    IF GaussExponent(x, mu2, sigma) > FloatMinExp THEN DZero
    ELSE {GaussExponent(x, mu2, sigma)}

\* make_gaussian_pdt(mu, sigma).  The dictionary is held as the sequence of
\* its keys, in insertion order, and the sequence of its values; a value
\* pdt[z] / gauss_sum is the pair of num[i] and den.
make_gaussian_pdt(mu2, sigma) ==
    LET zmax == zmax_of(sigma)
        keys == range(floor_mu(mu2) - zmax, ceil_mu(mu2) + zmax)
        pdt == [i \in 1 .. Len(keys) |-> gaussian(keys[i], mu2, sigma)]
        gauss_sum == DSum(pdt)
    IN  IF Len(keys) > 0 /\ gaussian_raises(keys[1], mu2, sigma)
        THEN [raised |-> ZeroDivisionError, keys |-> <<>>, num |-> <<>>, den |-> DZero]
        ELSE IF Len(keys) > 0 /\ gauss_sum = DZero
        THEN [raised |-> ZeroDivisionError, keys |-> <<>>, num |-> <<>>, den |-> DZero]
        ELSE [raised |-> NoError, keys |-> keys, num |-> pdt, den |-> gauss_sum]

\* ------------------------------------------------------ scipy.chisquare

\* chi2.isf(pmin, df) in thousandths, for the minimal p-value pmin = 0.001:
\* chi2.sf(x, df) > pmin iff x < chi2.isf(pmin, df).
ChiSquareCriticalMilli(df) ==
    CASE df = 1 -> 10828 [] df = 2 -> 13816 [] df = 3 -> 16266
      [] df = 4 -> 18467 [] df = 5 -> 20515 [] df = 6 -> 22458
      [] df = 7 -> 24322 [] df = 8 -> 26124

RECURSIVE Product(_)
Product(seq) == IF seq = <<>> THEN 1 ELSE Head(seq) * Product(Tail(seq))

RECURSIVE SumSeq(_)
SumSeq(seq) == IF seq = <<>> THEN 0 ELSE Head(seq) + SumSeq(Tail(seq))

Without(seq, i) == SubSeq(seq, 1, i - 1) \o SubSeq(seq, i + 1, Len(seq))

\* Pearson's statistic, the sum of (obs - exp)^2 / exp, as the fraction
\* num / den over the common denominator den = product of exp.
PearsonStatistic(obs, exp) ==
    [num |-> SumSeq([i \in 1 .. Len(obs) |->
                       (obs[i] - exp[i]) * (obs[i] - exp[i]) * Product(Without(exp, i))]),
     den |-> Product(exp)]

\* scipy.stats.chisquare(obs, f_exp=exp): the statistic and the p-value
\* chi2.sf(statistic, len(obs) - 1).  The p-value is held as the pair it is
\* a function of; with no degree of freedom it is nan.
scipy_chisquare(obs, exp) ==
    LET stat == PearsonStatistic(obs, exp)
    IN  [statistic |-> stat, pvalue |-> [sf_of |-> stat, df |-> Len(obs) - 1]]

IsNan(pvalue) == pvalue.df < 1 \/ pvalue.sf_of.den = 0

\* pvalue > pmin: the statistic lies below the critical value of pmin.
\* A comparison with nan is false.
PvalueAbovePmin(pvalue) ==
    /\ ~IsNan(pvalue)
    /\ pvalue.sf_of.num =< (ChiSquareCriticalMilli(pvalue.df) * pvalue.sf_of.den - 1) \div 1000

\* ----------------------------------------------------- UnivariateSamples

\* A sample is <<v>> for the number v and <<>> for nan (a missing entry of
\* a pandas column).
Num(v) == <<v>>
NaN == <<>>

\* z in histogram, for a dictionary whose keys are a range.
InDict(z, keys) == z # NaN /\ Len(keys) > 0 /\ z[1] >= keys[1] /\ z[1] =< keys[Len(keys)]

RECURSIVE FillHistogramDropping(_, _, _, _)
\* A faulty variant of FillHistogram: a sample outside the support is
\* dropped without being counted.
FillHistogramDropping(keys, vals, outlier, samples) ==
    IF samples = <<>> THEN [vals |-> vals, outlier |-> outlier]
    ELSE LET z == Head(samples)
         IN  IF ~InDict(z, keys)
             THEN FillHistogramDropping(keys, vals, outlier, Tail(samples))
             ELSE FillHistogramDropping(keys,
                                        [vals EXCEPT ![z[1] - keys[1] + 1] = @ + 1],
                                        outlier, Tail(samples))

RECURSIVE FillHistogram(_, _, _, _)
\* The loop over list_samples: the histogram values and the outlier count
\* after the samples from position i on.
FillHistogram(keys, vals, outlier, samples) ==
    IF samples = <<>> THEN [vals |-> vals, outlier |-> outlier]
    ELSE LET z == Head(samples)
         IN  IF ~InDict(z, keys)
             THEN FillHistogram(keys, vals, outlier + 1, Tail(samples))
             ELSE FillHistogram(keys,
                                [vals EXCEPT ![z[1] - keys[1] + 1] = @ + 1],
                                outlier, Tail(samples))

\* exp[z] < chi2_bucket / nsamples, for exp[z] = num / den.
BelowBucket(num, den, nsamples) == DLessProduct(num, nsamples, den, chi2_bucket)

Pop(seq, i) == Without(seq, i)

\* A faulty variant of MergeRightObs: the cell is popped without being added
\* to its right neighbour.
MergeRightObsDropping(seq, z) == Pop(seq, z + 1)

\* obs[z + 1] += obs[z]; obs.pop(z), with z counted from 0 as in the source.
MergeRightObs(seq, z) == Pop([seq EXCEPT ![z + 2] = @ + seq[z + 1]], z + 1)
\* exp[z + 1] += exp[z]; exp.pop(z)
MergeRightExp(seq, z) == Pop([seq EXCEPT ![z + 2] = DAdd(@, seq[z + 1])], z + 1)

\* obs[-2] += obs[-1]; obs.pop(-1)
MergeLastObs(seq) == Pop([seq EXCEPT ![Len(seq) - 1] = @ + seq[Len(seq)]], Len(seq))
\* exp[-2] += exp[-1]; exp.pop(-1)
MergeLastExp(seq) == Pop([seq EXCEPT ![Len(seq) - 1] = DAdd(@, seq[Len(seq)])], Len(seq))

NoStatistic == [num |-> 0, den |-> 0]
NoPvalue == [sf_of |-> NoStatistic, df |-> 0]

NoMean == [nan |-> TRUE, num |-> 0, den |-> 1]

RECURSIVE SumSamples(_)
SumSamples(samples) ==
    IF samples = <<>> THEN 0 ELSE Head(samples)[1] + SumSamples(Tail(samples))

\* sum(list_samples) / self.nsamples: nan as soon as one sample is nan.
MeanOf(samples) ==
    IF \E i \in 1 .. Len(samples) : samples[i] = NaN THEN NoMean
    ELSE [nan |-> FALSE, num |-> SumSamples(samples), den |-> Len(samples)]

\* A faulty variant of is_valid_of: the outliers are not looked at.
is_valid_of_pvalue(chi2_pvalue, outlier) == TRUE /\ PvalueAbovePmin(chi2_pvalue)

\* Lines 141-143: the verdict.
is_valid_of(chi2_pvalue, outlier) == TRUE /\ PvalueAbovePmin(chi2_pvalue) /\ outlier = 0


\* ---------------------------------------------------- MultivariateSamples

RECURSIVE MaxLen(_)
MaxLen(list) ==
    IF list = <<>> THEN 0
    ELSE LET m == MaxLen(Tail(list))
         IN  IF Len(Head(list)) > m THEN Len(Head(list)) ELSE m

\* pandas.DataFrame(list_samples), as the sequence of its columns: a row
\* shorter than the longest is padded with nan.
DataFrame(list_samples) ==
    [j \in 1 .. MaxLen(list_samples) |->
       [i \in 1 .. Len(list_samples) |->
          IF j =< Len(list_samples[i]) THEN Num(list_samples[i][j]) ELSE NaN]]

HasNan(column) == \E i \in 1 .. Len(column) : column[i] = NaN

RECURSIVE SumProducts(_, _)
SumProducts(x, y) ==
    IF x = <<>> THEN 0
    ELSE Head(x)[1] * Head(y)[1] + SumProducts(Tail(x), Tail(y))

\* n (n - 1) times the sample covariance of two columns without nan:
\* n sum(x y) - sum(x) sum(y).
CoMoment(x, y) == Len(x) * SumProducts(x, y) - SumSamples(x) * SumSamples(y)

\* numpy.cov(data.transpose()) / sigma ** 2, held as the matrix of the
\* co-moments; nan marks the entries of a column with a missing value or of
\* a single observation.
cov(data) ==
    [i \in 1 .. Len(data) |-> [j \in 1 .. Len(data) |->
        IF HasNan(data[i]) \/ HasNan(data[j]) \/ Len(data[i]) < 2
        THEN [nan |-> TRUE, moment |-> 0]
        ELSE [nan |-> FALSE, moment |-> CoMoment(data[i], data[j])]]]

\* corrcoef(data.transpose()) has a nan entry: a column with a missing
\* value, a single row, or a column of variance 0 (0 / 0).
CorrHasNan(data) ==
    \E i \in 1 .. Len(data) : cov(data)[i][i].nan \/ cov(data)[i][i].moment = 0

\* matrix_rank(R) for a correlation matrix R without nan of at most two
\* columns: R is singular iff the two columns are exactly collinear, i.e.
\* iff the determinant of the co-moments is 0.
matrix_rank(data) ==
    IF Len(data) = 2
       /\ cov(data)[1][1].moment * cov(data)[2][2].moment
            = cov(data)[1][2].moment * cov(data)[1][2].moment
    THEN 1
    ELSE Len(data)

\* The two products of line 374 and 375, b = 3 * BNum(n) / BDen(n).
BNum(n) == (n * n + 27 * n - 70) * (n + 1) * (n + 3)
BDen(n) == (n - 2) * (n + 5) * (n + 7) * (n + 9)

NoTest == [raised |-> NoError, returned |-> FALSE, p |-> 0, v |-> 0]

\* The sample sizes for which lines 373-377 raise nothing.
SizeRaises(n) ==
    IF n = 2 THEN ZeroDivisionError
    ELSE IF BNum(n) < BDen(n) THEN ValueError
    ELSE IF BNum(n) = BDen(n) THEN ZeroDivisionError
    ELSE NoError

\* A faulty variant of doornik_hansen: on a rank-deficient R the test goes
\* on with the data reduced to the non-degenerate subspace.
doornik_hansen_reduced(data) ==
    LET n == IF Len(data) = 0 THEN 0 ELSE Len(data[1])
        p == Len(data)
        raise(e) == [raised |-> e, returned |-> FALSE, p |-> p, v |-> 0]
    IN  IF p = 0 THEN raise(ValueError)
        ELSE IF p = 1 THEN raise(LinAlgError)
        ELSE IF CorrHasNan(data) THEN raise(LinAlgError)
        ELSE IF SizeRaises(n) # NoError THEN raise(SizeRaises(n))
        ELSE [raised |-> NoError, returned |-> TRUE,
              p |-> matrix_rank(data), v |-> 2 * matrix_rank(data)]

\* A faulty variant of doornik_hansen: the columns are analysed whatever
\* their number and their missing values.
doornik_hansen_lenient(data) ==
    LET n == IF Len(data) = 0 THEN 0 ELSE Len(data[1])
        p == Len(data)
        raise(e) == [raised |-> e, returned |-> FALSE, p |-> p, v |-> 0]
    IN  IF p >= 2 /\ ~CorrHasNan(data) /\ matrix_rank(data) < p THEN raise(ValueError)
        ELSE IF SizeRaises(n) # NoError THEN raise(SizeRaises(n))
        ELSE [raised |-> NoError, returned |-> TRUE, p |-> p, v |-> 2 * p]

\* doornik_hansen(data): what it raises, or that it returns (DH, AS, PO, PA)
\* for p variables, compared against a chi-square of v = 2 p degrees of
\* freedom.  The statistics themselves (logarithms and roots of moments of
\* the data) are not computed here.
\*  - matrix_rank takes the maximum of no singular value for no column;
\*  - eigh(R) refuses the 0-dimensional R of a single column;
\*  - on an R with nan, eigh or the SVD of matrix_rank does not converge, or
\*    the rank counts as 0 and line 354 raises;
\*  - rank(R) < p: line 354 raises after the projection of the data;
\*  - line 375 divides by 0 for n = 2; line 377 takes the logarithm of 0 or
\*    the root of a negative number unless w2 > 1, i.e. b > 3, and divides
\*    by 0 for w2 = 1.
doornik_hansen(data) ==
    LET n == IF Len(data) = 0 THEN 0 ELSE Len(data[1])
        p == Len(data)
        raise(e) == [raised |-> e, returned |-> FALSE, p |-> p, v |-> 0]
    IN  IF p = 0 THEN raise(ValueError)
        ELSE IF p = 1 THEN raise(LinAlgError)
        ELSE IF CorrHasNan(data) THEN raise(LinAlgError)
        ELSE IF matrix_rank(data) < p THEN raise(ValueError)
        ELSE IF SizeRaises(n) # NoError THEN raise(SizeRaises(n))
        ELSE [raised |-> NoError, returned |-> TRUE, p |-> p, v |-> 2 * p]

\* The cell cov_mat[row][col] that diagcov() reads for the j-th term of the
\* diagonal sum of a family at offset i, rows and columns counted from 0.
FamilyCell(family, n0, i, j) ==
    IF family = 1 THEN <<j, i + j>>
    ELSE IF family = 2 THEN <<n0 + j, n0 + i + j>>
    ELSE IF family = 3 THEN <<j, n0 + i + j>>
    ELSE <<j, n0 - i + j>>

\* range(n0 - i): the number of terms of a diagonal sum.
DiagLength(n0, i) == n0 - i

\* A variant that divides by the length of the leading diagonal for every
\* offset.
NormLengthFull(n0, i) == n0

\* The divisor of nsamples under the square root of nfactor.
NormLength(n0, i) == n0 - i

Entry(cov_mat, cell) == cov_mat[cell[1] + 1][cell[2] + 1]

RECURSIVE Factorial(_)
Factorial(k) == IF k <= 1 THEN 1 ELSE k * Factorial(k - 1)

\* diagcov(cov_mat, nsamples). diagsum has 2 * dim slots; slot i + (f - 1) * n0
\* holds the sum of family f at offset i for i in 1 .. n0 - 1, every other
\* slot stays 0. cells[k] are the cells read for slot k - 1, norm[k] is the
\* divisor m of the factor sqrt(nsamples / m) applied to it (0: no factor),
\* chistat is the sum of the squares of the normalized slots as a fraction,
\* and the p-value is 1 - chi2.cdf(chistat, df).
diagcov(cov_mat, nsamples) ==
    LET dim == Len(cov_mat)
        n0 == dim \div 2
        Active(k) == n0 >= 2 /\ k < 4 * n0 /\ k % n0 >= 1
        Family(k) == k \div n0 + 1
        Offset(k) == k % n0
        Terms(k) == [j \in 1 .. DiagLength(n0, Offset(k)) |->
                       FamilyCell(Family(k), n0, Offset(k), j - 1)]
        cells == [k \in 1 .. 2 * dim |->
                    IF Active(k - 1)
                    THEN {Terms(k - 1)[j] : j \in 1 .. Len(Terms(k - 1))}
                    ELSE {}]
        diagsum == [k \in 1 .. 2 * dim |->
                      IF Active(k - 1)
                      THEN SumSeq([j \in 1 .. Len(Terms(k - 1)) |->
                                     Entry(cov_mat, Terms(k - 1)[j])])
                      ELSE 0]
        norm == [k \in 1 .. 2 * dim |->
                   IF Active(k - 1) THEN NormLength(n0, Offset(k - 1)) ELSE 0]
        den == Factorial(n0 - 1)
        squares == [k \in 1 .. 2 * dim |->
                      IF norm[k] = 0 THEN diagsum[k] * diagsum[k] * den
                      ELSE diagsum[k] * diagsum[k] * nsamples * (den \div norm[k])]
    IN  [df |-> 4 * (n0 - 1), nsamples |-> nsamples,
         cells |-> cells, diagsum |-> diagsum, norm |-> norm,
         chistat |-> [num |-> SumSeq(squares), den |-> den]]

\* ------------------------------------------------------------- inputs

\* Bounds of the sample lists.
MaxSide == 12
MaxCentre == 21
MaxOutliers == 2
MaxRecalls == 1

\* sigma = 1 / sqrt(2 k ln 2): 0.849, 0.425, 0.0708, 0.0256 and 0.0128;
\* further 0 and two negative values.
Sigmas ==
    {Sigma(1, 1), Sigma(1, 4), Sigma(1, 144), Sigma(1, 1100), Sigma(1, 4400),
     Sigma(0, 4), Sigma(-1, 4), Sigma(-1, 144)}

\* The centres 0 and 1/2.  A weight is a power of two for an integer centre,
\* and for a half-integer one when 4 divides k.
Centres == {0, 1}
Params ==
    {q \in Centres \X Sigmas : q[1] % 2 = 0 \/ q[2].k % 4 = 0}

Rep(v, n) == [i \in 1 .. n |-> v]

\* A list of samples: a times the value left of the centre, b times the
\* centre, c times the value right of it, then o values outside the
\* support: the first integer right of it, then the first one left of it.
SampleList(mu2, sigma, a, b, c, o) ==
    LET c0 == floor_mu(mu2)
        right == ceil_mu(mu2) + zmax_of(sigma)
        left == floor_mu(mu2) - zmax_of(sigma) - 1
    IN  Rep(c0 - 1, a) \o Rep(c0, b) \o Rep(c0 + 1, c)
          \o SubSeq(<<right, left, right + 1>>, 1, o)

SideCounts == {0} \cup ((MaxSide - 1) .. MaxSide)
CentreCounts == {0, 5} \cup ((MaxCentre - 1) .. MaxCentre)

Wrap(list) == [i \in 1 .. Len(list) |-> Num(list[i])]

Rotate(list, r) == SubSeq(list, r + 1, Len(list)) \o SubSeq(list, 1, r)

\* The vectors of a multivariate sample set, from a first coordinate x.
\*   "rotated", "same", "constant": vectors <<x[i], y[i]>> for a second
\*       coordinate that is x rotated, x itself (collinear) or 0;
\*   "single": vectors of dimension 1;
\*   "first_short", "last_short", "first_long": one vector of another
\*       dimension than the rest.
\*   "empty": vectors of dimension 0.
Shapes == {"rotated", "same", "constant", "single", "empty",
           "first_short", "last_short", "first_long"}
Vectors(x, shape) ==
    LET y == IF shape = "same" THEN x
             ELSE IF shape = "constant" THEN Rep(0, Len(x))
             ELSE Rotate(x, Len(x) \div 3)
    IN  [i \in 1 .. Len(x) |->
           IF shape = "empty" THEN <<>>
           ELSE IF shape = "single" THEN <<x[i]>>
           ELSE IF shape = "first_short" /\ i = 1 THEN <<x[i]>>
           ELSE IF shape = "last_short" /\ i = Len(x) THEN <<x[i]>>
           ELSE IF shape = "first_long" /\ i = 1 THEN <<x[i], y[i], 0>>
           ELSE <<x[i], y[i]>>]

MvSigmas == {Sigma(1, 1), Sigma(1, 144)}

\* Covariance matrices handed to diagcov() directly: symmetric, of dimension
\* 2 .. MaxDim, with sample sizes from DiagSamples.
MaxDim == 7
CovPatterns == {"identity", "ones", "ramp", "signed"}
CovMatrix(dim, pattern) ==
    [r \in 1 .. dim |-> [c \in 1 .. dim |->
        IF pattern = "identity" THEN (IF r = c THEN 1 ELSE 0)
        ELSE IF pattern = "ones" THEN 1
        ELSE IF pattern = "ramp" THEN Min({r, c}) * dim + Max({r, c})
        ELSE IF (r + c) % 2 = 0 THEN Min({r, c}) ELSE 0 - Max({r, c})]]
DiagSamples == {1, 6}

\* -------------------------------------------------------------- state

VARIABLES
    top,        \* the call made: its name and arguments
    pc,         \* where the call stands
    samples,    \* list_samples of the UnivariateSamples under construction
    self,       \* the UnivariateSamples object
    chi,        \* the locals of chisquare(): obs, exp (over den) and z
    res,        \* what the last chisquare() returned
    calls,      \* the number of chisquare() calls made after construction
    mv,         \* the MultivariateSamples object
    out         \* what the call raised, or the value it returned

vars == <<top, pc, samples, self, chi, res, calls, mv, out>>

NoDiag == [df |-> 0, nsamples |-> 0, cells |-> <<>>, diagsum |-> <<>>,
           norm |-> <<>>, chistat |-> [num |-> 0, den |-> 1]]
NoTable == [raised |-> NoError, keys |-> <<>>, num |-> <<>>, den |-> DZero]
NoHistogram == [keys |-> <<>>, vals |-> <<>>]
NoSamples == [attrs |-> {}, exp_mu |-> 0, exp_sigma |-> Sigma(0, 1), nsamples |-> 0,
              histogram |-> NoHistogram, outlier |-> 0, mean |-> NoMean,
              chi2_stat |-> NoStatistic, chi2_pvalue |-> NoPvalue, is_valid |-> FALSE]
NoChi == [obs |-> <<>>, exp |-> <<>>, den |-> DZero, z |-> 0, caller |-> "none",
          counts |-> <<>>]
NoRes == [statistic |-> NoStatistic, pvalue |-> NoPvalue]
NoMultivariate == [attrs |-> {}, nsamples |-> 0, dim |-> 0, data |-> <<>>,
                   exp_mu |-> 0, exp_si |-> Sigma(0, 1), univariates |-> <<>>,
                   nb_gaussian_coord |-> 0, covariance |-> <<>>,
                   DH |-> NoTest, dc_pvalue |-> NoDiag, i |-> 0]
NoOut == [raised |-> NoError, table |-> NoTable, test |-> NoTest, diag |-> NoDiag]
NoCall == [name |-> "none", mu |-> 0, sigma |-> Sigma(0, 1), data |-> <<>>,
           nsamples |-> 0]

Init ==
    /\ top = NoCall
    /\ pc = "idle"
    /\ samples = <<>>
    /\ self = NoSamples
    /\ chi = NoChi
    /\ res = NoRes
    /\ calls = 0
    /\ mv = NoMultivariate
    /\ out = NoOut

\* An exception leaves the call: the object under construction is never
\* bound.
Raise(e) ==
    /\ pc' = "raised"
    /\ out' = [out EXCEPT !.raised = e]

\* ----------------------------------------- UnivariateSamples.__init__

\* Lines 112-129: the attributes, the empty histogram and the loop over the
\* samples.
Begin(mu2, sigma, list_samples) ==
    LET zmax == zmax_of(sigma)
        keys == range(floor_mu(mu2) - zmax, ceil_mu(mu2) + zmax)
        filled == FillHistogram(keys, Rep(0, Len(keys)), 0, list_samples)
    IN  /\ samples' = list_samples
        /\ self' = [NoSamples EXCEPT
                      !.attrs = {"exp_mu", "exp_sigma", "nsamples", "histogram", "outlier"},
                      !.exp_mu = mu2, !.exp_sigma = sigma,
                      !.nsamples = Len(list_samples),
                      !.histogram = [keys |-> keys, vals |-> filled.vals],
                      !.outlier = filled.outlier]
        /\ pc' = "moments"

NewUnivariateSamples ==
    /\ pc = "idle"
    /\ \E q \in Params, a \in SideCounts, b \in CentreCounts, c \in SideCounts,
          o \in 0 .. MaxOutliers :
         LET list == Wrap(SampleList(q[1], q[2], a, b, c, o))
         IN  /\ top' = [NoCall EXCEPT !.name = "UnivariateSamples",
                                      !.mu = q[1], !.sigma = q[2], !.data = list]
             /\ Begin(q[1], q[2], list)
    /\ UNCHANGED <<chi, res, calls, mv, out>>

\* Lines 131-137: the mean divides by nsamples; then chisquare() is called.
\* The moments of scipy (variance, skewness, kurtosis, stdev) raise nothing
\* on a non-empty list and nothing reads them: they are left out.
Moments ==
    /\ pc = "moments"
    /\ IF self.nsamples = 0
       THEN Raise(ZeroDivisionError) /\ UNCHANGED <<self, chi>>
       ELSE /\ self' = [self EXCEPT !.attrs = @ \cup {"mean"},
                                    !.mean = MeanOf(samples)]
            /\ chi' = [NoChi EXCEPT !.caller = "__init__"]
            /\ pc' = "chisquare"
            /\ UNCHANGED out
    /\ UNCHANGED <<top, samples, res, calls, mv>>

\* -------------------------------------------- UnivariateSamples.chisquare

\* Line 178: the table is made anew from exp_mu and exp_sigma at each call.
ExpectedHistogram(object) == make_gaussian_pdt(object.exp_mu, object.exp_sigma)

\* Lines 175-181: the histogram is deep-copied, the table made anew.
ChisquareStart ==
    /\ pc = "chisquare"
    /\ LET histogram == self.histogram
           exp_histogram == ExpectedHistogram(self)
       IN  IF exp_histogram.raised # NoError
           THEN Raise(exp_histogram.raised) /\ UNCHANGED chi
           ELSE /\ chi' = [chi EXCEPT !.obs = histogram.vals,
                                      !.exp = exp_histogram.num,
                                      !.den = exp_histogram.den,
                                      !.z = 0]
                /\ pc' = "sweep"
                /\ UNCHANGED out
    /\ UNCHANGED <<top, samples, self, res, calls, mv>>

\* Line 185: the condition of the inner loop.
InnerCondition ==
    /\ chi.z < Len(chi.exp) - 1
    /\ BelowBucket(chi.exp[chi.z + 1], chi.den, self.nsamples)

\* Lines 183-184: the sweep ends.
SweepBreak ==
    /\ pc = "sweep"
    /\ chi.z >= Len(chi.exp) - 1
    /\ pc' = "merged"
    /\ UNCHANGED <<top, samples, self, chi, res, calls, mv, out>>

\* A faulty variant of SweepMerge: z moves on after the merge, so the merged
\* bucket is not looked at again.
SweepMergeSkipping ==
    /\ pc = "sweep"
    /\ chi.z < Len(chi.exp) - 1
    /\ InnerCondition
    /\ chi' = [chi EXCEPT !.obs = MergeRightObs(chi.obs, chi.z),
                          !.exp = MergeRightExp(chi.exp, chi.z),
                          !.z = @ + 1]
    /\ UNCHANGED <<top, pc, samples, self, res, calls, mv, out>>

\* Lines 185-189: bucket z is merged into its right neighbour.
SweepMerge ==
    /\ pc = "sweep"
    /\ chi.z < Len(chi.exp) - 1
    /\ InnerCondition
    /\ chi' = [chi EXCEPT !.obs = MergeRightObs(chi.obs, chi.z),
                          !.exp = MergeRightExp(chi.exp, chi.z)]
    /\ UNCHANGED <<top, pc, samples, self, res, calls, mv, out>>

\* Line 190: the inner loop is over, z moves on.
SweepAdvance ==
    /\ pc = "sweep"
    /\ chi.z < Len(chi.exp) - 1
    /\ ~InnerCondition
    /\ chi' = [chi EXCEPT !.z = @ + 1]
    /\ UNCHANGED <<top, pc, samples, self, res, calls, mv, out>>

\* Line 195: exp = [round(prob * self.nsamples) for prob in exp].
ExpectedCounts(exp, den, nsamples) ==
    [i \in 1 .. Len(exp) |-> RoundHalfEven(exp[i], den, nsamples)]

\* Lines 195, 198: the expected counts and the comparison.  Lines 196-197
\* compute diff = nsamples - sum(exp_histogram.values()) and add it to one
\* entry of the local table exp_histogram, which nothing reads afterwards:
\* the list exp handed to scipy is left as line 195 made it.
Pearson(obs, exp, den, nsamples) ==
    scipy_chisquare(obs, ExpectedCounts(exp, den, nsamples))

\* A faulty variant of ChisquareFinish: the two rightmost buckets are left
\* unmerged.
ChisquareFinishUnmerged ==
    /\ pc = "merged"
    /\ IF Len(chi.obs) < 2
       THEN Raise(IndexError) /\ UNCHANGED <<chi, res, calls>>
       ELSE /\ res' = Pearson(chi.obs, chi.exp, chi.den, self.nsamples)
            /\ pc' = IF chi.caller = "__init__" THEN "verdict" ELSE "done"
            /\ calls' = IF chi.caller = "__init__" THEN calls ELSE calls + 1
            /\ UNCHANGED <<chi, out>>
    /\ UNCHANGED <<top, samples, self, mv>>

\* A faulty variant of ChisquareFinish: the merging works in place, the
\* merged buckets become the first cells of the histogram of the object.
ChisquareFinishInPlace ==
    /\ pc = "merged"
    /\ IF Len(chi.obs) < 2
       THEN Raise(IndexError) /\ UNCHANGED <<self, chi, res, calls>>
       ELSE /\ chi' = [chi EXCEPT !.obs = MergeLastObs(chi.obs),
                                  !.exp = MergeLastExp(chi.exp),
                                  !.counts = ExpectedCounts(MergeLastExp(chi.exp),
                                                            chi.den, self.nsamples)]
            /\ self' = [self EXCEPT !.histogram.vals =
                          MergeLastObs(chi.obs)
                            \o Rep(0, Len(@) - Len(MergeLastObs(chi.obs)))]
            /\ res' = Pearson(MergeLastObs(chi.obs), MergeLastExp(chi.exp),
                              chi.den, self.nsamples)
            /\ pc' = IF chi.caller = "__init__" THEN "verdict" ELSE "done"
            /\ calls' = IF chi.caller = "__init__" THEN calls ELSE calls + 1
            /\ UNCHANGED out
    /\ UNCHANGED <<top, samples, mv>>

\* Lines 191-199: the two rightmost buckets are merged (obs[-2] needs two),
\* the expected counts rounded and compared; the result returns to the
\* caller.
ChisquareFinish ==
    /\ pc = "merged"
    /\ IF Len(chi.obs) < 2
       THEN Raise(IndexError) /\ UNCHANGED <<chi, res, calls>>
       ELSE /\ chi' = [chi EXCEPT !.obs = MergeLastObs(chi.obs),
                                  !.exp = MergeLastExp(chi.exp),
                                  !.counts = ExpectedCounts(MergeLastExp(chi.exp),
                                                            chi.den, self.nsamples)]
            /\ res' = Pearson(MergeLastObs(chi.obs), MergeLastExp(chi.exp),
                              chi.den, self.nsamples)
            /\ pc' = IF chi.caller = "__init__" THEN "verdict" ELSE "done"
            /\ calls' = IF chi.caller = "__init__" THEN calls ELSE calls + 1
            /\ UNCHANGED out
    /\ UNCHANGED <<top, samples, self, mv>>

\* Lines 137-143: the statistic, the p-value and the verdict; the object is
\* bound, to the caller or to univariates[i] of a MultivariateSamples.
Verdict ==
    /\ pc = "verdict"
    /\ LET done == [self EXCEPT
                      !.attrs = @ \cup {"chi2_stat", "chi2_pvalue", "is_valid"},
                      !.chi2_stat = res.statistic,
                      !.chi2_pvalue = res.pvalue,
                      !.is_valid = is_valid_of(res.pvalue, self.outlier)]
       IN  /\ self' = done
           /\ IF top.name = "MultivariateSamples"
              THEN /\ mv' = [mv EXCEPT !.univariates[mv.i + 1] = done, !.i = @ + 1]
                   /\ pc' = "coordinates"
              ELSE /\ pc' = "done"
                   /\ UNCHANGED mv
    /\ UNCHANGED <<top, samples, chi, res, calls, out>>

\* chisquare() is called again on the constructed object.
CallChisquare ==
    /\ pc = "done"
    /\ top.name = "UnivariateSamples"
    /\ calls < MaxRecalls
    /\ chi' = [NoChi EXCEPT !.caller = "caller"]
    /\ pc' = "chisquare"
    /\ UNCHANGED <<top, samples, self, res, calls, mv, out>>

\* --------------------------------------- MultivariateSamples.__init__

\* Lines 220-228: list_samples[0] needs a first vector.
NewMultivariateSamples ==
    /\ pc = "idle"
    /\ \E sigma \in MvSigmas, a \in SideCounts, b \in CentreCounts,
          o \in 0 .. 1, shape \in Shapes :
         LET list == Vectors(SampleList(0, sigma, a, b, a, o), shape)
         IN  /\ top' = [NoCall EXCEPT !.name = "MultivariateSamples",
                                      !.sigma = sigma, !.data = list]
             /\ IF Len(list) = 0
                THEN Raise(IndexError) /\ UNCHANGED mv
                ELSE /\ mv' = [NoMultivariate EXCEPT
                                 !.attrs = {"nsamples", "dim", "data", "exp_mu",
                                            "exp_si", "univariates"},
                                 !.nsamples = Len(list),
                                 !.dim = Len(list[1]),
                                 !.data = DataFrame(list),
                                 !.exp_mu = 0,
                                 !.exp_si = sigma,
                                 !.univariates = Rep(NoSamples, Len(list[1]))]
                     /\ pc' = "coordinates"
                     /\ UNCHANGED out
    /\ UNCHANGED <<samples, self, chi, res, calls>>

\* Lines 229-230: the univariate analysis of coordinate i.
Coordinate ==
    /\ pc = "coordinates"
    /\ mv.i < mv.dim
    /\ Begin(mv.exp_mu, mv.exp_si, mv.data[mv.i + 1])
    /\ UNCHANGED <<top, chi, res, calls, mv, out>>

\* Line 231: the coordinates counted.
GaussianCoordinates(univariates) ==
    Cardinality({i \in 1 .. Len(univariates) :
                   PvalueAbovePmin(univariates[i].chi2_pvalue)})

\* Lines 231-235: the count of the coordinates, the covariance matrix, the
\* Doornik-Hansen test and the covariance-diagonal test.
Tests ==
    /\ pc = "coordinates"
    /\ mv.i >= mv.dim
    /\ LET counted == [mv EXCEPT
                         !.attrs = @ \cup {"nb_gaussian_coord", "covariance"},
                         !.nb_gaussian_coord = GaussianCoordinates(mv.univariates),
                         !.covariance = cov(mv.data)]
           test == doornik_hansen(mv.data)
       IN  IF test.raised # NoError
           THEN /\ mv' = counted
                /\ Raise(test.raised)
           ELSE /\ mv' = [counted EXCEPT
                            !.attrs = @ \cup {"DH", "AS", "PO", "PA", "dc_pvalue"},
                            !.DH = test,
                            !.dc_pvalue = diagcov(counted.covariance, mv.nsamples)]
                /\ pc' = "done"
                /\ UNCHANGED out
    /\ UNCHANGED <<top, samples, self, chi, res, calls>>

\* ------------------------------------------------------- direct calls

CallMakeGaussianPdt ==
    /\ pc = "idle"
    /\ \E q \in Params :
         LET table == make_gaussian_pdt(q[1], q[2])
         IN  /\ top' = [NoCall EXCEPT !.name = "make_gaussian_pdt",
                                      !.mu = q[1], !.sigma = q[2]]
             /\ IF table.raised # NoError
                THEN Raise(table.raised)
                ELSE /\ out' = [out EXCEPT !.table = table]
                     /\ pc' = "done"
    /\ UNCHANGED <<samples, self, chi, res, calls, mv>>

CallDoornikHansen ==
    /\ pc = "idle"
    /\ \E a \in SideCounts, b \in CentreCounts, o \in 0 .. 1, shape \in Shapes :
         LET data == DataFrame(Vectors(SampleList(0, Sigma(1, 1), a, b, a, o), shape))
             test == doornik_hansen(data)
         IN  /\ top' = [NoCall EXCEPT !.name = "doornik_hansen", !.data = data]
             /\ IF test.raised # NoError
                THEN Raise(test.raised)
                ELSE /\ out' = [out EXCEPT !.test = test]
                     /\ pc' = "done"
    /\ UNCHANGED <<samples, self, chi, res, calls, mv>>

CallDiagcov ==
    /\ pc = "idle"
    /\ \E dim \in 2 .. MaxDim, pattern \in CovPatterns, n \in DiagSamples :
         LET cov_mat == CovMatrix(dim, pattern)
         IN  /\ top' = [NoCall EXCEPT !.name = "diagcov", !.data = cov_mat,
                                      !.nsamples = n]
             /\ out' = [out EXCEPT !.diag = diagcov(cov_mat, n)]
             /\ pc' = "done"
    /\ UNCHANGED <<samples, self, chi, res, calls, mv>>

Next ==
    \/ NewUnivariateSamples
    \/ Moments
    \/ ChisquareStart
    \/ SweepBreak
    \/ SweepMerge
    \/ SweepAdvance
    \/ ChisquareFinish
    \/ Verdict
    \/ CallChisquare
    \/ NewMultivariateSamples
    \/ Coordinate
    \/ Tests
    \/ CallMakeGaussianPdt
    \/ CallDoornikHansen
    \/ CallDiagcov

Spec == Init /\ [][Next]_vars

\* ------------------------------------------------------------ properties

\* The UnivariateSamples objects whose construction has completed: the one
\* of the caller and the coordinates of a MultivariateSamples.
Completed ==
    {object \in {self} \cup {mv.univariates[i] : i \in 1 .. Len(mv.univariates)} :
       "is_valid" \in object.attrs}

\* C1: for every UnivariateSamples object whose construction completes,
\* is_valid is true if and only if chi2_pvalue > pmin and outlier = 0.
C1_Verdict ==
    \A object \in Completed :
      object.is_valid <=> (PvalueAbovePmin(object.chi2_pvalue) /\ object.outlier = 0)

\* A sample list without outlier passes the chi-square test.
C1_Witness ==
    /\ top.name = "UnivariateSamples"
    /\ pc = "done"
    /\ self.is_valid
    /\ PvalueAbovePmin(self.chi2_pvalue)

\* The number of samples equal to the key, and of those equal to no key.
CountOf(key) == Cardinality({j \in 1 .. Len(samples) : samples[j] = Num(key)})
CountOutside(keys) ==
    Cardinality({j \in 1 .. Len(samples) :
                   \A i \in 1 .. Len(keys) : samples[j] # Num(keys[i])})

\* C2: once the loop over the samples has run, every cell of the histogram
\* holds the number of samples equal to its key and outlier the number of
\* samples that are no key, so that sum(histogram) + outlier = nsamples; and
\* an object constructed with an outlier is not valid.
C2_Counted ==
    "outlier" \in self.attrs =>
      /\ \A i \in 1 .. Len(self.histogram.keys) :
           self.histogram.vals[i] = CountOf(self.histogram.keys[i])
      /\ self.outlier = CountOutside(self.histogram.keys)
      /\ SumSeq(self.histogram.vals) + self.outlier = self.nsamples
      /\ "is_valid" \in self.attrs /\ self.outlier >= 1 => ~self.is_valid

\* One sample outside the support, a p-value above pmin, and no validity.
C2_Witness ==
    /\ top.name = "UnivariateSamples"
    /\ pc = "done"
    /\ self.outlier = 1
    /\ SumSeq(self.histogram.vals) = self.nsamples - 1
    /\ PvalueAbovePmin(self.chi2_pvalue)
    /\ ~self.is_valid

\* C3 (as the claim states it): when doornik_hansen raises inside
\* MultivariateSamples, which is after the covariance matrix is assigned,
\* the covariance-diagonal p-value is computed all the same.
C3_Isolation ==
    (top.name = "MultivariateSamples" /\ pc = "raised" /\ "covariance" \in mv.attrs)
      => "dc_pvalue" \in mv.attrs

\* Two columns without missing value, equal to each other and not constant:
\* exactly collinear, the correlation matrix has rank 1.
Collinear(data) ==
    /\ Len(data) = 2
    /\ ~HasNan(data[1])
    /\ data[1] = data[2]
    /\ \E i, j \in 1 .. Len(data[1]) : data[1][i] # data[1][j]

\* C4: doornik_hansen on two exactly collinear columns raises the ValueError
\* of line 354 and returns no result; a MultivariateSamples over such data
\* gets no DH attribute and is never constructed.
C4_RankDeficient ==
    /\ (top.name = "doornik_hansen" /\ pc # "idle" /\ Collinear(top.data))
         => (pc = "raised" /\ out.raised = ValueError /\ out.test = NoTest)
    /\ (top.name = "MultivariateSamples" /\ Collinear(mv.data))
         => (pc # "done" /\ "DH" \notin mv.attrs)

\* Collinear columns of a size the statistics could be computed for.
C4_Witness ==
    /\ top.name = "doornik_hansen"
    /\ pc = "raised"
    /\ Collinear(top.data)
    /\ SizeRaises(Len(top.data[1])) = NoError

BadUnivariateInput ==
    top.name = "UnivariateSamples" /\ (Len(top.data) = 0 \/ top.sigma.sign =< 0)

\* C5: a UnivariateSamples call with no sample or with sigma <= 0, for the
\* centre 0 as for the centre 1/2, never assigns a verdict and never
\* returns: it is under way, before the verdict, or it has raised.  With no
\* sample it gets no further than the mean; with sigma <= 0 the sweep has at
\* most one bucket, too few for obs[-2].
C5_InvalidInput ==
    BadUnivariateInput =>
      /\ "is_valid" \notin self.attrs
      /\ pc \in {"moments", "chisquare", "sweep", "merged", "raised"}
      /\ Len(top.data) = 0 => pc \in {"moments", "raised"}
      /\ pc \in {"sweep", "merged"} => Len(chi.obs) < 2

\* A negative sigma and a non-integer centre: a table of one cell.
C5_Witness ==
    /\ BadUnivariateInput
    /\ pc = "raised"
    /\ top.mu = 1
    /\ top.sigma.sign < 0
    /\ Len(top.data) > 0
    /\ Len(self.histogram.keys) = 1

\* C6 (as the claim states it): a construction that completes has compared
\* at least 2 buckets.
C6_TooFewBuckets ==
    (top.name = "UnivariateSamples" /\ "is_valid" \in self.attrs) => Len(chi.obs) >= 2

\* C7 (as the claim states it): nb_gaussian_coord is the number of valid
\* coordinates.
C7_Count ==
    (top.name = "MultivariateSamples" /\ pc = "done") =>
      mv.nb_gaussian_coord =
        Cardinality({i \in 1 .. Len(mv.univariates) : mv.univariates[i].is_valid})

\* C8: once a UnivariateSamples is constructed no step changes any of its
\* attributes, a call of chisquare() does not raise, and the call returns
\* the statistic and the p-value of the construction.
C8_Idempotent ==
    [][(top.name = "UnivariateSamples" /\ "is_valid" \in self.attrs) =>
         /\ self' = self
         /\ pc' # "raised"
         /\ pc' = "done" =>
              res' = [statistic |-> self.chi2_stat, pvalue |-> self.chi2_pvalue]]_vars

\* A second call of chisquare() has returned, after a sweep that merged.
C8_Witness ==
    /\ top.name = "UnivariateSamples"
    /\ pc = "done"
    /\ calls = 1
    /\ Len(chi.obs) >= 2
    /\ Len(chi.obs) < Len(self.histogram.vals) - 1

\* C9 (as the claim states it): make_gaussian_pdt with sigma > 0 returns a
\* table over the keys floor(mu) - zmax .. ceil(mu) + zmax - 1 whose masses
\* are positive and sum to 1; the histogram has the same keys.
C9_Table ==
    /\ (top.name = "make_gaussian_pdt" /\ pc # "idle" /\ top.sigma.sign > 0) =>
         /\ pc = "done"
         /\ out.table.keys = range(floor_mu(top.mu) - zmax_of(top.sigma),
                                   ceil_mu(top.mu) + zmax_of(top.sigma))
         /\ \A i \in 1 .. Len(out.table.num) : out.table.num[i] # DZero
         /\ out.table.den # DZero
         /\ DSum(out.table.num) = out.table.den
    /\ ("histogram" \in self.attrs /\ self.exp_sigma.sign > 0) =>
         self.histogram.keys = range(floor_mu(self.exp_mu) - zmax_of(self.exp_sigma),
                                     ceil_mu(self.exp_mu) + zmax_of(self.exp_sigma))

SameDimension(list) == \A i \in 1 .. Len(list) : Len(list[i]) = Len(list[1])

BadMultivariateInput ==
    /\ top.name = "MultivariateSamples"
    /\ Len(top.data) > 0
    /\ ~SameDimension(top.data) \/ Len(top.data[1]) < 2

\* C10: a MultivariateSamples call on vectors of unequal dimensions, or of a
\* dimension below 2, never returns and never assigns DH or dc_pvalue: it is
\* under way in the analysis of a coordinate or between two of them, or it
\* has raised.
C10_Rejected ==
    BadMultivariateInput =>
      /\ pc \in {"moments", "chisquare", "sweep", "merged", "verdict",
                  "coordinates", "raised"}
      /\ "DH" \notin mv.attrs
      /\ "dc_pvalue" \notin mv.attrs

\* Vectors of unequal dimensions got as far as doornik_hansen.
C10_Witness ==
    /\ BadMultivariateInput
    /\ ~SameDimension(top.data)
    /\ pc = "raised"
    /\ "covariance" \in mv.attrs

\* The explicit linear scan: cell i opens a new bucket when there is none or
\* when the mass accumulated in the last one is no longer below
\* chi2_bucket / n, and is added to the last bucket otherwise.
RECURSIVE LinearScan(_, _, _, _, _, _)
LinearScan(obs, exp, den, nsamples, i, buckets) ==
    IF i > Len(exp) THEN buckets
    ELSE LET last == Len(buckets.exp)
         IN  IF last > 0 /\ BelowBucket(buckets.exp[last], den, nsamples)
             THEN LinearScan(obs, exp, den, nsamples, i + 1,
                             [obs |-> [buckets.obs EXCEPT ![last] = @ + obs[i]],
                              exp |-> [buckets.exp EXCEPT ![last] = DAdd(@, exp[i])]])
             ELSE LinearScan(obs, exp, den, nsamples, i + 1,
                             [obs |-> Append(buckets.obs, obs[i]),
                              exp |-> Append(buckets.exp, exp[i])])

\* The scan of the histogram of the object against its reference table.
ScanOfSelf ==
    LinearScan(self.histogram.vals, ExpectedHistogram(self).num,
               ExpectedHistogram(self).den, self.nsamples, 1,
               [obs |-> <<>>, exp |-> <<>>])

\* The two rightmost buckets merged into one.
RightmostMergedObs(seq) ==
    SubSeq(seq, 1, Len(seq) - 2) \o <<seq[Len(seq) - 1] + seq[Len(seq)]>>
RightmostMergedExp(seq) ==
    SubSeq(seq, 1, Len(seq) - 2) \o <<DAdd(seq[Len(seq) - 1], seq[Len(seq)])>>

\* The buckets of a chisquare() call that went through the final merge.
FinalMergeDone ==
    pc = "verdict" \/ (pc = "done" /\ top.name = "UnivariateSamples")

\* C11: when the sweep ends, obs and exp are the buckets of the linear scan;
\* after the final merge they are those buckets with the two rightmost
\* merged; and every step of the sweep that does not end it makes
\* len(exp) - z smaller, so the sweep terminates.
C11_LinearScan ==
    /\ [](/\ pc = "merged" =>
               /\ chi.obs = ScanOfSelf.obs
               /\ chi.exp = ScanOfSelf.exp
          /\ FinalMergeDone =>
               /\ chi.obs = RightmostMergedObs(ScanOfSelf.obs)
               /\ chi.exp = RightmostMergedExp(ScanOfSelf.exp))
    /\ [][pc = "sweep" =>
            \/ pc' = "merged"
            \/ /\ pc' = "sweep"
               /\ Len(chi'.exp) - chi'.z < Len(chi.exp) - chi.z]_vars

\* A sweep that merged cells on both sides and left four buckets.
C11_Witness ==
    /\ pc = "merged"
    /\ Len(chi.obs) = 4
    /\ Len(self.histogram.vals) > 4
    /\ chi.obs[1] > 0
    /\ chi.obs[3] > 0

\* C12: every bucket of a chisquare() call that went through the final
\* merge has an expected mass that is not below chi2_bucket / nsamples, and
\* a rounded expected count of at least chi2_bucket.
C12_BucketSize ==
    FinalMergeDone =>
      \A i \in 1 .. Len(chi.exp) :
        /\ ~DLessProduct(chi.exp[i], self.nsamples, chi.den, chi2_bucket)
        /\ RoundHalfEven(chi.exp[i], chi.den, self.nsamples) >= chi2_bucket

\* Three buckets compared, one of them with an expected count of 11.
C12_Witness ==
    /\ FinalMergeDone
    /\ Len(chi.exp) = 3
    /\ \E i \in 1 .. Len(chi.exp) :
         RoundHalfEven(chi.exp[i], chi.den, self.nsamples) = chi2_bucket + 1


\* The calls of diagcov() that have returned: the direct call, and the one
\* MultivariateSamples.__init__ makes on its covariance matrix.
DiagDirect == pc = "done" /\ top.name = "diagcov"
DiagCalled == DiagDirect \/ "dc_pvalue" \in mv.attrs
DiagMatrix == IF DiagDirect THEN top.data ELSE mv.covariance
DiagSize == IF DiagDirect THEN top.nsamples ELSE mv.nsamples
DiagResult == IF DiagDirect THEN out.diag ELSE mv.dc_pvalue

\* The slot of diagsum that holds the sum of family f at offset i, counted
\* from 1.
DiagSlot(f, n0, i) == i + (f - 1) * n0 + 1

RECURSIVE SumEntries(_, _)
SumEntries(cov_mat, cells) ==
    IF cells = {} THEN 0
    ELSE LET cell == CHOOSE c \in cells : TRUE
         IN  Entry(cov_mat, cell) + SumEntries(cov_mat, cells \ {cell})

RECURSIVE SumOver(_, _)
SumOver(slots, terms) ==
    IF slots = {} THEN 0
    ELSE LET k == CHOOSE x \in slots : TRUE
         IN  terms[k] + SumOver(slots \ {k}, terms)

\* C13: for every covariance matrix of dimension d >= 2, even or odd,
\* diagcov forms exactly 4 * (d \div 2 - 1) diagonal sums, one per family and
\* offset i in 1 .. d \div 2 - 1; each sum has exactly d \div 2 - i cells, all
\* within the matrix and strictly off its main diagonal, each cell entering
\* its sum once; the sum is normalized by sqrt(n / (d \div 2 - i)); the
\* statistic is the sum of the squares of the normalized sums and is compared
\* against the chi-square distribution with 4 * (d \div 2 - 1) degrees of
\* freedom.
C13_DiagonalSums ==
    DiagCalled =>
      LET d == Len(DiagMatrix)
          h == d \div 2
          r == DiagResult
          formed == {k \in 1 .. Len(r.cells) : r.cells[k] # {}}
          offsets == 1 .. h - 1
          slots == {DiagSlot(f, h, i) : f \in 1 .. 4, i \in offsets}
      IN  /\ d >= 2
          /\ Cardinality(formed) = 4 * (h - 1)
          /\ formed = slots
          /\ \A f \in 1 .. 4, i \in offsets :
               LET k == DiagSlot(f, h, i)
               IN  /\ Cardinality(r.cells[k]) = h - i
                   /\ \A cell \in r.cells[k] :
                        /\ cell[1] \in 0 .. d - 1
                        /\ cell[2] \in 0 .. d - 1
                        /\ cell[1] # cell[2]
                   /\ r.diagsum[k] = SumEntries(DiagMatrix, r.cells[k])
                   /\ r.norm[k] = h - i
          /\ \A k \in (1 .. Len(r.diagsum)) \ slots : r.diagsum[k] = 0
          /\ r.nsamples = DiagSize
          /\ \A k \in slots : r.chistat.den % r.norm[k] = 0
          /\ r.chistat.num =
               SumOver(slots, [k \in slots |->
                  r.diagsum[k] * r.diagsum[k] * DiagSize * (r.chistat.den \div r.norm[k])])
          /\ r.df = 4 * (h - 1)

\* diagcov() has returned for a matrix of odd dimension 7 with distinct
\* entries: 8 sums, of 2 cells at offset 1 and of 1 cell at offset 2.
C13_Witness ==
    /\ DiagDirect
    /\ Len(top.data) = MaxDim
    /\ top.data[1][2] # top.data[1][3]
    /\ top.nsamples > 1
    /\ out.diag.df = 4 * (MaxDim \div 2 - 1)
    /\ Cardinality(out.diag.cells[2]) = MaxDim \div 2 - 1


\* The block of the covariance matrix that the docstring of diagcov() gives
\* to a family, n0 being the side of blocks 1 and 2: family 1 block 1 above
\* its leading diagonal, family 2 block 2 above its leading diagonal, family
\* 3 block 3 above its leading diagonal, family 4 block 3 below it.
InFamilyBlock(f, n0, cell) ==
    LET row == cell[1]
        col == cell[2]
    IN  IF f = 1 THEN row < n0 /\ col < n0 /\ col > row
        ELSE IF f = 2 THEN row >= n0 /\ col >= n0 /\ col > row
        ELSE IF f = 3 THEN row < n0 /\ col >= n0 /\ col - n0 > row
        ELSE row < n0 /\ col >= n0 /\ col - n0 < row

\* C14: for every offset, each cell summed into a family lies in the block
\* the docstring assigns to the family, so that no cell of the matrix
\* contributes to two different diagonal sums.
C14_Blocks ==
    DiagCalled =>
      LET h == Len(DiagMatrix) \div 2
          r == DiagResult
      IN  /\ \A f \in 1 .. 4, i \in 1 .. h - 1 :
               \A cell \in r.cells[DiagSlot(f, h, i)] : InFamilyBlock(f, h, cell)
          /\ \A k1, k2 \in 1 .. Len(r.cells) :
               k1 # k2 => r.cells[k1] \cap r.cells[k2] = {}


\* C15: the integer expected counts handed to Pearson's test sum to exactly
\* nsamples, so that with outlier = 0 the observed and the expected totals
\* are equal.
C15_CountsSum ==
    FinalMergeDone =>
      /\ SumSeq(chi.counts) = self.nsamples
      /\ self.outlier = 0 => SumSeq(chi.obs) = SumSeq(chi.counts)


\* obs and exp from bucket i on are the cells of cellsObs and cellsExp from
\* cell c on, cut into non-empty contiguous runs in increasing order, each
\* bucket holding the sum of its run; accObs and accExp are the sums of the
\* cells already given to bucket i, open tells that there are such cells.
RECURSIVE IsCoarsening(_, _, _, _, _, _, _, _, _)
IsCoarsening(obs, exp, cellsObs, cellsExp, i, c, accObs, accExp, open) ==
    IF c > Len(cellsObs) THEN ~open /\ i = Len(obs) + 1
    ELSE IF i > Len(obs) THEN FALSE
    ELSE LET o == accObs + cellsObs[c]
             e == DAdd(accExp, cellsExp[c])
         IN  \/ /\ o = obs[i]
                /\ e = exp[i]
                /\ IsCoarsening(obs, exp, cellsObs, cellsExp, i + 1, c + 1,
                                0, DZero, FALSE)
             \/ /\ o <= obs[i]
                /\ IsCoarsening(obs, exp, cellsObs, cellsExp, i, c + 1, o, e, TRUE)

InSweep == pc \in {"sweep", "merged"}

\* C16: at every step of the sweep and after the final merge, obs and exp
\* have the same length, the buckets are contiguous runs of support values
\* in increasing order that partition the support (no cell dropped,
\* duplicated or reordered), the observed counts sum to nsamples - outlier
\* and the expected masses sum to the total mass of the table.
C16_Partition ==
    (InSweep \/ FinalMergeDone) =>
      LET cells == ExpectedHistogram(self).num
      IN  /\ Len(chi.obs) = Len(chi.exp)
          /\ Len(self.histogram.vals) = Len(cells)
          /\ IsCoarsening(chi.obs, chi.exp, self.histogram.vals, cells,
                          1, 1, 0, DZero, FALSE)
          /\ SumSeq(chi.obs) = self.nsamples - self.outlier
          /\ DSum(chi.exp) = chi.den
          /\ chi.den = DSum(cells)

\* The sweep stands at its third bucket, cells have been merged into the
\* first bucket, which holds samples, and one sample lay outside the support.
C16_Witness ==
    /\ pc = "sweep"
    /\ chi.z = 2
    /\ Len(chi.obs) < Len(self.histogram.vals)
    /\ chi.obs[1] > 0
    /\ self.outlier > 0

=============================================================================
